---- MODULE Spec2Model ----
(***************************************************************************)
(* Model of synth_identity: the IdentityManager of snapshot.py (owner      *)
(* keyed, capped snapshot histories) and the InvariantEngine of kernel.py. *)
(*                                                                         *)
(* The manager state is the dict _user_snapshots, which maps an owner key  *)
(* to a Python list OBJECT.  Lists are modelled on a heap (reference ->    *)
(* sequence) because commit_new_snapshot appends in place to the list it   *)
(* read from the dict and rotation rebinds the dict entry to a new list.   *)
(* The timestamp field of IdentitySnapshot is not modelled.                *)
(***************************************************************************)
EXTENDS Integers, Sequences, FiniteSets, TLC

VARIABLES
    cap,              \* the configured value of IdentityManager.MAX_SNAPSHOTS
    skeleton,         \* the module global MINIMAL_SKELETON_IDENTITY
    user_snapshots,   \* IdentityManager._user_snapshots: owner -> list reference
    heap,             \* list reference -> sequence of snapshots
    pc,               \* per thread, the line of the call it is executing
    frame,            \* per thread, the locals of the call it is executing
    retlog,           \* per owner, the snapshots commit_new_snapshot returned, in order
    last,             \* the last completed call and what it returned
    cinfo,            \* per started commit: its owner, the latest snapshot when it
                      \* began and the snapshot it constructed
    racy,             \* per owner: two commits to it have been in progress at once
    applog,           \* per owner, the snapshots appended to a list of the owner
                      \* (line 63), in the order of the appends
    vtext,            \* InvariantEngine.validate: the text argument
    vkernel,          \* InvariantEngine.validate: the kernel argument
    vout              \* InvariantEngine.validate: what the call did

vars == <<cap, skeleton, user_snapshots, heap, pc, frame, retlog, last, cinfo, racy,
          applog, vtext, vkernel, vout>>

threadVars == <<pc, frame, cinfo, racy, applog>>

valVars == <<vtext, vkernel, vout>>

(***************************************************************************)
(* Bounds of the model.                                                    *)
(***************************************************************************)
MaxCap == 2           \* caps 0..MaxCap are explored exhaustively
MaxCommits == 4       \* commits per behaviour when the cap is at most MaxCap
MaxOver == 5          \* commits beyond the cap when the cap is MAX_SNAPSHOTS
MaxConcCommits == 2   \* commits started per behaviour of the threaded model
MaxTextLen == 2       \* length of the texts and patterns given to validate
MaxRules == 2         \* length of a kernel's invariants list

MAX_SNAPSHOTS == 20

Owners == {"u1", "u2"}

Threads == {"t1", "t2"}

ApprovalStatus == {"auto", "reviewed", "user_approved", "system_rollback"}

\* The arguments (kernel, reflection, status) of a commit_new_snapshot call.
\* Kernels are opaque to the manager and stand by their name.
Requests ==
    { [kernel |-> "k1", reflection |-> "", status |-> "auto"],
      [kernel |-> "k1", reflection |-> "tuned", status |-> "reviewed"],
      [kernel |-> "k2", reflection |-> "", status |-> "user_approved"],
      [kernel |-> "Nexus Assistant", reflection |-> "Fallback due to load failure",
       status |-> "system_rollback"] }

DefaultRequest == [kernel |-> "k1", reflection |-> "", status |-> "auto"]

\* the commit calls of the threaded model: the requests differ from owner to
\* owner, so that a snapshot shows by its content which owner it was committed
\* to, and for owner u1 from thread to thread, so that the snapshots of two
\* commits racing on u1 are told apart as the objects of the program are
ConcCalls(t) ==
    { [user_id |-> "u1",
       req |-> IF t = "t1" THEN DefaultRequest
               ELSE [kernel |-> "k1-tuned", reflection |-> "fewer emojis",
                     status |-> "reviewed"]],
      [user_id |-> "u2",
       req |-> [kernel |-> "Nexus Assistant", reflection |-> "Fallback due to load failure",
                status |-> "system_rollback"]] }

CapValues == (0..MaxCap) \cup {MAX_SNAPSHOTS}

Min(a, b) == IF a < b THEN a ELSE b
Max(a, b) == IF a > b THEN a ELSE b

RECURSIVE SumLen(_, _)
SumLen(f, S) ==
    IF S = {} THEN 0
    ELSE LET x == CHOOSE y \in S : TRUE IN Len(f[x]) + SumLen(f, S \ {x})

(***************************************************************************)
(* IdentitySnapshot and the fallback.                                      *)
(***************************************************************************)
\* mutant: the status argument not passed on, so the default AUTO is kept
IdentitySnapshot_DefaultStatus(kernel, version, reflection, approval_status) ==
    [kernel |-> kernel, version |-> version,
     approval_status |-> "auto", reflection |-> reflection]

IdentitySnapshot(kernel, version, reflection, approval_status) ==
    [kernel |-> kernel, version |-> version,
     approval_status |-> approval_status, reflection |-> reflection]

MINIMAL_SKELETON_IDENTITY ==
    IdentitySnapshot("Nexus Assistant", 0, "Fallback due to load failure", "system_rollback")

NoSnapshot == IdentitySnapshot("", -1, "", "")

(***************************************************************************)
(* Python list and dict primitives.                                        *)
(***************************************************************************)
\* mutant: history[:n], the oldest n entries
SliceLast_First(h, n) == SubSeq(h, 1, Min(n, Len(h)))

\* history[-n:]   (-0 is 0, so history[-0:] is the whole list)
SliceLast(h, n) ==
    LET start == IF n = 0 THEN 0 ELSE Max(Len(h) - n, 0)
    IN  SubSeq(h, start + 1, Len(h))

\* d[k] = v
DictSet(d, k, v) == [x \in DOMAIN d \cup {k} |-> IF x = k THEN v ELSE d[x]]

\* mutant: one list object shared by every allocation
FreshRef_Shared(hp) == 1

\* the reference of a newly allocated list
FreshRef(hp) == CHOOSE r \in 1..(Cardinality(DOMAIN hp) + 1) : r \notin DOMAIN hp

\* lists no reference is left to are freed
Collect(hp, d, held) ==
    [r \in ({d[k] : k \in DOMAIN d} \cup held) \cap DOMAIN hp |-> hp[r]]

\* the list stored for an owner, empty when the dict has no entry
StoredHistory(o) ==
    IF o \in DOMAIN user_snapshots THEN heap[user_snapshots[o]] ELSE <<>>

(***************************************************************************)
(* InvariantEngine.validate (kernel.py).  Texts and patterns are sequences *)
(* of characters.  A violation message is the sequence of the pieces its   *)
(* f-string concatenates.                                                  *)
(***************************************************************************)
Alphabet == {"a", "A", "b", "B"}

\* mutant: the comparison made case-sensitive
Lower_Identity(str) == str

\* str.lower(), character by character
LowerChar(c) == CASE c = "A" -> "a" [] c = "B" -> "b" [] OTHER -> c
Lower(str) == [k \in 1..Len(str) |-> LowerChar(str[k])]

\* p in t, for strings
IsSubstring(p, t) ==
    \E k \in 0..(Len(t) - Len(p)) : SubSeq(t, k + 1, k + Len(p)) = p

Strings(n) == UNION {[1..k -> Alphabet] : k \in 0..n}

Texts == Strings(MaxTextLen)

\* What calling a predicate on a text does: it returns a truthy or a falsy
\* value, raises an Exception, or raises a BaseException that is no Exception.
CallPredicate(fn, text) ==
    CASE fn = "always_true" -> [does |-> "returns", value |-> TRUE, exc |-> ""]
      [] fn = "always_false" -> [does |-> "returns", value |-> FALSE, exc |-> ""]
      [] fn = "non_empty" -> [does |-> "returns", value |-> Len(text) > 0, exc |-> ""]
      [] fn = "raises_value_error" -> [does |-> "raises", value |-> FALSE, exc |-> "ValueError"]
      [] fn = "raises_keyboard_interrupt" ->
            [does |-> "raises_base", value |-> FALSE, exc |-> "KeyboardInterrupt"]

\* The elements an invariants list may hold (List[Any]): callables, with or
\* without a __name__; dicts, with or without the keys type, pattern and id,
\* the pattern a str or None; and values that are neither.
Callable(name, fn) ==
    [shape |-> "callable", name |-> name, fn |-> fn,
     type |-> "", pattern_is |-> "", pattern |-> <<>>, id |-> ""]

Dict(type, pattern_is, pattern, id) ==
    [shape |-> "dict", name |-> "", fn |-> "",
     type |-> type, pattern_is |-> pattern_is, pattern |-> pattern, id |-> id]

Other == [shape |-> "other", name |-> "", fn |-> "",
          type |-> "", pattern_is |-> "", pattern |-> <<>>, id |-> ""]

\* "" for name or id, and "missing" for pattern_is, stand for an absent
\* attribute or key; the type "" stands for a dict without a type
Rules ==
    { Callable("always_true", "always_true"),
      Callable("is_polite", "always_false"),
      Callable("", "always_false"),
      Callable("has_text", "non_empty"),
      Callable("broken", "raises_value_error"),
      Callable("interrupted", "raises_keyboard_interrupt"),
      Dict("contains_not", "str", <<"a">>, "p1"),
      Dict("contains_not", "str", <<"A", "b">>, ""),
      Dict("contains_not", "missing", <<>>, "p2"),
      Dict("contains", "str", <<"b">>, "p3"),
      Dict("contains", "str", <<"B">>, "p4"),
      Dict("contains", "none", <<>>, "p5"),
      Dict("regex", "str", <<"a">>, "p6"),
      Dict("", "none", <<>>, ""),
      Other }

RuleLists == UNION {[1..k -> Rules] : k \in 0..MaxRules}

\* IdentityKernel(name=..., invariants=...): a frozen dataclass without a
\* __post_init__; it keeps the list it is given, whatever its elements are
IdentityKernel(name, invariants) == [name |-> name, invariants |-> invariants]

\* rule.get("pattern", "")
PatternOf(rule) == IF rule.pattern_is = "str" THEN rule.pattern ELSE <<>>

\* getattr(rule, '__name__', f"lambda_{i}")
RuleName(rule, i) == IF rule.name # "" THEN <<rule.name>> ELSE <<"lambda_", ToString(i)>>

\* rule.get("id", f"entry_{i}")
RuleId(rule, i) == IF rule.id # "" THEN <<rule.id>> ELSE <<"entry_", ToString(i)>>

PredicateFailed(rule, i) ==
    <<"[Rule:">> \o RuleName(rule, i) \o <<"] Invariant Violation: Predicate check failed.">>

RestrictedDetected(rule, i) ==
    <<"[Rule:">> \o RuleId(rule, i) \o <<"] Invariant Violation: Restricted pattern '">>
        \o PatternOf(rule) \o <<"' detected.">>

RequiredMissing(rule, i) ==
    <<"[Rule:">> \o RuleId(rule, i) \o <<"] Invariant Violation: Required pattern '">>
        \o PatternOf(rule) \o <<"' missing.">>

CheckCrashed(i, exc) ==
    <<"[Rule:err_", ToString(i), "] Invariant Error: Check crashed (", exc, ")">>

Passes == [does |-> "passes", msg |-> <<>>, exc |-> ""]
Violates(msg) == [does |-> "violates", msg |-> msg, exc |-> ""]
Propagates(exc) == [does |-> "propagates", msg |-> <<>>, exc |-> exc]

\* mutant: except Exception: pass
CheckCallable_FailOpen(text, rule, i) ==
    LET r == CallPredicate(rule.fn, text)
    IN  CASE r.does = "returns" ->
                 IF ~r.value THEN Violates(PredicateFailed(rule, i)) ELSE Passes
          [] r.does = "raises" -> Passes
          [] r.does = "raises_base" -> Propagates(r.exc)

\* the body of the try block for a callable rule
CheckCallable(text, rule, i) ==
    LET r == CallPredicate(rule.fn, text)
    IN  CASE r.does = "returns" ->
                 IF ~r.value THEN Violates(PredicateFailed(rule, i)) ELSE Passes
          [] r.does = "raises" -> Violates(CheckCrashed(i, r.exc))
          [] r.does = "raises_base" -> Propagates(r.exc)

\* the body of the try block for a dict rule; None.lower() is an AttributeError
CheckDict(text, rule, i) ==
    CASE rule.type = "contains_not" ->
             IF rule.pattern_is = "none" THEN Violates(CheckCrashed(i, "AttributeError"))
             ELSE IF IsSubstring(Lower(PatternOf(rule)), Lower(text))
                  THEN Violates(RestrictedDetected(rule, i)) ELSE Passes
      [] rule.type = "contains" ->
             IF rule.pattern_is = "none" THEN Violates(CheckCrashed(i, "AttributeError"))
             ELSE IF ~IsSubstring(Lower(PatternOf(rule)), Lower(text))
                  THEN Violates(RequiredMissing(rule, i)) ELSE Passes
      [] OTHER -> Passes

\* one iteration of the loop over enumerate(kernel.invariants); i counts from 0
CheckRule(text, rule, i) ==
    CASE rule.shape = "callable" -> CheckCallable(text, rule, i)
      [] rule.shape = "dict" -> CheckDict(text, rule, i)
      [] OTHER -> Passes

\* mutant: the loop left at the first violation
RECURSIVE Loop_ShortCircuit(_, _, _, _)
Loop_ShortCircuit(text, invariants, k, violations) ==
    IF k > Len(invariants) THEN [does |-> "completes", violations |-> violations, exc |-> ""]
    ELSE LET r == CheckRule(text, invariants[k], k - 1)
         IN  CASE r.does = "propagates" ->
                      [does |-> "propagates", violations |-> violations, exc |-> r.exc]
               [] r.does = "violates" ->
                      [does |-> "completes", violations |-> Append(violations, r.msg),
                       exc |-> ""]
               [] OTHER -> Loop_ShortCircuit(text, invariants, k + 1, violations)

\* the loop, from rule number k (1-based) on, with the violations so far
RECURSIVE Loop(_, _, _, _)
Loop(text, invariants, k, violations) ==
    IF k > Len(invariants) THEN [does |-> "completes", violations |-> violations, exc |-> ""]
    ELSE LET r == CheckRule(text, invariants[k], k - 1)
         IN  CASE r.does = "propagates" ->
                      [does |-> "propagates", violations |-> violations, exc |-> r.exc]
               [] r.does = "violates" ->
                      Loop(text, invariants, k + 1, Append(violations, r.msg))
               [] OTHER -> Loop(text, invariants, k + 1, violations)

\* mutant: the flag inverted
ValidateReturn_Inverted(violations) ==
    [does |-> "returns", valid |-> (Len(violations) # 0), violations |-> violations, exc |-> ""]

\* return len(violations) == 0, violations
ValidateReturn(violations) ==
    [does |-> "returns", valid |-> (Len(violations) = 0), violations |-> violations, exc |-> ""]

validate(text, kernel) ==
    LET l == Loop(text, kernel.invariants, 1, <<>>)
    IN  IF l.does = "propagates"
        THEN [does |-> "raises", valid |-> FALSE, violations |-> <<>>, exc |-> l.exc]
        ELSE ValidateReturn(l.violations)

NotCalled == [does |-> "not_called", valid |-> FALSE, violations |-> <<>>, exc |-> ""]

InitValidate ==
    /\ vtext = <<>>
    /\ vkernel = [name |-> "", invariants |-> <<>>]
    /\ vout = NotCalled

(***************************************************************************)
(* commit_new_snapshot and get_latest (snapshot.py), called one at a time. *)
(***************************************************************************)
\* mutant: the version taken from the history length
NewVersion_ByLength(h) == Len(h) + 1

\* mutant: versions counted from 0
NewVersion_FromZero(h) == IF Len(h) > 0 THEN h[Len(h)].version + 1 ELSE 0

\* mutant: the increment forgotten
NewVersion_Stuck(h) == IF Len(h) > 0 THEN h[Len(h)].version ELSE 1

\* new_version = history[-1].version + 1 if history else 1
NewVersion(h) == IF Len(h) > 0 THEN h[Len(h)].version + 1 ELSE 1

\* if len(history) > self.MAX_SNAPSHOTS
NeedsRotation(h, c) == Len(h) > c

\* mutant: history[0], the oldest entry
ListLast_First(h) ==
    IF Len(h) > 0 THEN [exc |-> "none", result |-> h[1]]
    ELSE [exc |-> "IndexError", result |-> NoSnapshot]

\* history[-1]: IndexError on an empty list
ListLast(h) ==
    IF Len(h) > 0 THEN [exc |-> "none", result |-> h[Len(h)]]
    ELSE [exc |-> "IndexError", result |-> NoSnapshot]

\* mutant: history[-1] without the test for an empty history
LatestOf_Unguarded(h, fallback) ==
    IF Len(h) > 0 THEN [exc |-> "none", result |-> h[Len(h)]]
    ELSE [exc |-> "IndexError", result |-> NoSnapshot]

\* history[-1] if history else MINIMAL_SKELETON_IDENTITY
LatestOf(h, fallback) ==
    IF Len(h) > 0 THEN ListLast(h) ELSE [exc |-> "none", result |-> fallback]

CommitBudget == IF cap > MaxCap THEN cap + MaxOver ELSE MaxCommits

\* the calls explored: every owner and request for the small caps, one owner
\* and one request for the default cap
CallOwners == IF cap > MaxCap THEN {"u1"} ELSE Owners
CallRequests == IF cap > MaxCap THEN {DefaultRequest} ELSE Requests

CommitNewSnapshot(user_id, req) ==
    /\ SumLen(retlog, Owners) < CommitBudget
    /\ LET absent == user_id \notin DOMAIN user_snapshots
           r1 == FreshRef(heap)
           us1 == IF absent THEN DictSet(user_snapshots, user_id, r1) ELSE user_snapshots
           hp1 == IF absent THEN DictSet(heap, r1, <<>>) ELSE heap
           history == us1[user_id]
           new_version == NewVersion(hp1[history])
           snapshot == IdentitySnapshot(req.kernel, new_version, req.reflection, req.status)
           hp2 == [hp1 EXCEPT ![history] = Append(@, snapshot)]
           rotate == NeedsRotation(hp2[history], cap)
           r2 == FreshRef(hp2)
           us2 == IF rotate THEN DictSet(us1, user_id, r2) ELSE us1
           hp3 == IF rotate THEN DictSet(hp2, r2, SliceLast(hp2[history], cap)) ELSE hp2
       IN  /\ user_snapshots' = us2
           /\ heap' = Collect(hp3, us2, {})
           /\ retlog' = [retlog EXCEPT ![user_id] = Append(@, snapshot)]
           /\ last' = [op |-> "commit_new_snapshot", user_id |-> user_id,
                       exc |-> "none", result |-> snapshot]
    /\ UNCHANGED <<valVars, cap, skeleton, threadVars>>

\* mutant: self._user_snapshots.setdefault(user_id, []) in place of .get
GetLatest_SetDefault(user_id) ==
    /\ LET absent == user_id \notin DOMAIN user_snapshots
           r1 == FreshRef(heap)
           us1 == IF absent THEN DictSet(user_snapshots, user_id, r1) ELSE user_snapshots
           hp1 == IF absent THEN DictSet(heap, r1, <<>>) ELSE heap
           out == LatestOf(hp1[us1[user_id]], skeleton)
       IN  /\ user_snapshots' = us1
           /\ heap' = hp1
           /\ last' = [op |-> "get_latest", user_id |-> user_id,
                       exc |-> out.exc, result |-> out.result]
    /\ UNCHANGED <<valVars, cap, skeleton, retlog, threadVars>>

GetLatest(user_id) ==
    /\ LET history == StoredHistory(user_id)
           out == LatestOf(history, skeleton)
       IN  last' = [op |-> "get_latest", user_id |-> user_id,
                    exc |-> out.exc, result |-> out.result]
    /\ UNCHANGED <<valVars, cap, skeleton, user_snapshots, heap, retlog, threadVars>>

IdleFrame ==
    [op |-> "none", user_id |-> "", req |-> DefaultRequest, history |-> 0,
     snapshot |-> NoSnapshot, sliced |-> <<>>, exc |-> "none", result |-> NoSnapshot,
     cid |-> 0, ovl |-> {}, fresh |-> TRUE]

InitManager ==
    /\ skeleton = MINIMAL_SKELETON_IDENTITY
    /\ user_snapshots = [o \in {} |-> 0]
    /\ heap = [r \in {} |-> <<>>]
    /\ pc = [t \in Threads |-> "idle"]
    /\ frame = [t \in Threads |-> IdleFrame]
    /\ retlog = [o \in Owners |-> <<>>]
    /\ last = [op |-> "none", user_id |-> "", exc |-> "none", result |-> NoSnapshot]
    /\ cinfo = <<>>
    /\ racy = [o \in Owners |-> FALSE]
    /\ applog = [o \in Owners |-> <<>>]

Init ==
    /\ cap \in CapValues
    /\ InitManager
    /\ InitValidate

Next ==
    \/ \E o \in CallOwners, req \in CallRequests : CommitNewSnapshot(o, req)
    \/ \E o \in Owners : GetLatest(o)

Spec == Init /\ [][Next]_vars

(***************************************************************************)
(* The same two methods executed by threads, one step per read or write of *)
(* shared state.  IdentityManager takes no lock, so the steps of calls on  *)
(* different threads interleave freely.                                    *)
(***************************************************************************)
CommitLines == {"c48", "c49", "c51", "c54", "c63", "c66", "c67s", "c67w", "c69"}
ReadLines == {"g36", "g37t", "g37x"}

\* the list a local variable refers to; 0 is the private [] of dict.get
Deref(hp, r) == IF r = 0 THEN <<>> ELSE hp[r]

HeldRefs(fr) == {fr[t].history : t \in Threads} \ {0}

\* commits to owner o that have been called and have not returned
InProgress(o) ==
    {t \in Threads : pc[t] \in CommitLines /\ frame[t].user_id = o}

CallCommit(t, user_id, req) ==
    /\ pc[t] = "idle"
    /\ Len(cinfo) < MaxConcCommits
    /\ pc' = [pc EXCEPT ![t] = "c48"]
    /\ cinfo' = Append(cinfo, [user_id |-> user_id,
                               pre |-> LatestOf(StoredHistory(user_id), skeleton).result,
                               snapshot |-> NoSnapshot])
    /\ frame' = [u \in Threads |->
                    IF u = t
                    THEN [IdleFrame EXCEPT !.op = "commit_new_snapshot",
                                           !.user_id = user_id, !.req = req,
                                           !.cid = Len(cinfo) + 1]
                    ELSE IF pc[u] \in ReadLines /\ frame[u].user_id = user_id
                    THEN [frame[u] EXCEPT !.ovl = @ \cup {Len(cinfo) + 1}]
                    ELSE frame[u]]
    /\ racy' = [racy EXCEPT ![user_id] = @ \/ InProgress(user_id) # {}]
    /\ UNCHANGED <<valVars, cap, skeleton, user_snapshots, heap, retlog, last, applog>>

\* if user_id not in self._user_snapshots:
Commit48(t) ==
    /\ pc[t] = "c48"
    /\ pc' = [pc EXCEPT ![t] =
                 IF frame[t].user_id \notin DOMAIN user_snapshots THEN "c49" ELSE "c51"]
    /\ UNCHANGED <<valVars, cap, skeleton, user_snapshots, heap, frame, retlog, last, cinfo, racy, applog>>

\* self._user_snapshots[user_id] = []
Commit49(t) ==
    /\ pc[t] = "c49"
    /\ LET r == FreshRef(heap)
           us1 == DictSet(user_snapshots, frame[t].user_id, r)
       IN  /\ user_snapshots' = us1
           /\ heap' = Collect(DictSet(heap, r, <<>>), us1, HeldRefs(frame))
    /\ pc' = [pc EXCEPT ![t] = "c51"]
    /\ UNCHANGED <<valVars, cap, skeleton, frame, retlog, last, cinfo, racy, applog>>

\* history = self._user_snapshots[user_id]
Commit51(t) ==
    /\ pc[t] = "c51"
    /\ frame' = [frame EXCEPT ![t].history = user_snapshots[frame[t].user_id]]
    /\ pc' = [pc EXCEPT ![t] = "c54"]
    /\ UNCHANGED <<valVars, cap, skeleton, user_snapshots, heap, retlog, last, cinfo, racy, applog>>

\* new_version = ...; snapshot = IdentitySnapshot(...)
Commit54(t) ==
    /\ pc[t] = "c54"
    /\ LET new_version == NewVersion(heap[frame[t].history])
           snapshot == IdentitySnapshot(frame[t].req.kernel, new_version,
                                        frame[t].req.reflection, frame[t].req.status)
       IN  /\ frame' = [frame EXCEPT ![t].snapshot = snapshot]
           /\ cinfo' = [cinfo EXCEPT ![frame[t].cid].snapshot = snapshot]
    /\ pc' = [pc EXCEPT ![t] = "c63"]
    /\ UNCHANGED <<valVars, cap, skeleton, user_snapshots, heap, retlog, last, racy, applog>>

\* history.append(snapshot)
Commit63(t) ==
    /\ pc[t] = "c63"
    /\ heap' = [heap EXCEPT ![frame[t].history] = Append(@, frame[t].snapshot)]
    /\ applog' = [applog EXCEPT ![frame[t].user_id] = Append(@, frame[t].snapshot)]
    /\ pc' = [pc EXCEPT ![t] = "c66"]
    /\ UNCHANGED <<valVars, cap, skeleton, user_snapshots, frame, retlog, last, cinfo, racy>>

\* if len(history) > self.MAX_SNAPSHOTS:
Commit66(t) ==
    /\ pc[t] = "c66"
    /\ pc' = [pc EXCEPT ![t] =
                 IF NeedsRotation(heap[frame[t].history], cap) THEN "c67s" ELSE "c69"]
    /\ UNCHANGED <<valVars, cap, skeleton, user_snapshots, heap, frame, retlog, last, cinfo, racy, applog>>

\* history[-self.MAX_SNAPSHOTS:]   (the right-hand side of line 67)
Commit67Slice(t) ==
    /\ pc[t] = "c67s"
    /\ frame' = [frame EXCEPT ![t].sliced = SliceLast(heap[frame[t].history], cap)]
    /\ pc' = [pc EXCEPT ![t] = "c67w"]
    /\ UNCHANGED <<valVars, cap, skeleton, user_snapshots, heap, retlog, last, cinfo, racy, applog>>

\* self._user_snapshots[user_id] = <the slice>
Commit67Store(t) ==
    /\ pc[t] = "c67w"
    /\ LET r == FreshRef(heap)
           us1 == DictSet(user_snapshots, frame[t].user_id, r)
       IN  /\ user_snapshots' = us1
           /\ heap' = Collect(DictSet(heap, r, frame[t].sliced), us1, HeldRefs(frame))
    /\ pc' = [pc EXCEPT ![t] = "c69"]
    /\ UNCHANGED <<valVars, cap, skeleton, frame, retlog, last, cinfo, racy, applog>>

\* return snapshot
Commit69(t) ==
    /\ pc[t] = "c69"
    /\ retlog' = [retlog EXCEPT ![frame[t].user_id] = Append(@, frame[t].snapshot)]
    /\ frame' = [frame EXCEPT ![t] = IdleFrame]
    /\ heap' = Collect(heap, user_snapshots, HeldRefs(frame'))
    /\ pc' = [pc EXCEPT ![t] = "idle"]
    /\ UNCHANGED <<valVars, cap, skeleton, user_snapshots, last, cinfo, racy, applog>>

CallGetLatest(t, user_id) ==
    /\ pc[t] = "idle"
    /\ pc' = [pc EXCEPT ![t] = "g36"]
    /\ frame' = [frame EXCEPT ![t] =
                    [IdleFrame EXCEPT !.op = "get_latest", !.user_id = user_id,
                                      !.ovl = {frame[u].cid : u \in InProgress(user_id)}]]
    /\ UNCHANGED <<valVars, cap, skeleton, user_snapshots, heap, retlog, last, cinfo, racy, applog>>

\* history = self._user_snapshots.get(user_id, [])
Get36(t) ==
    /\ pc[t] = "g36"
    /\ frame' = [frame EXCEPT ![t].history =
                    IF frame[t].user_id \in DOMAIN user_snapshots
                    THEN user_snapshots[frame[t].user_id] ELSE 0]
    /\ pc' = [pc EXCEPT ![t] = "g37t"]
    /\ UNCHANGED <<valVars, cap, skeleton, user_snapshots, heap, retlog, last, cinfo, racy, applog>>

\* ... if history else MINIMAL_SKELETON_IDENTITY
Get37Test(t) ==
    /\ pc[t] = "g37t"
    /\ IF Len(Deref(heap, frame[t].history)) > 0
       THEN /\ pc' = [pc EXCEPT ![t] = "g37x"]
            /\ UNCHANGED frame
       ELSE /\ pc' = [pc EXCEPT ![t] = "gret"]
            /\ frame' = [frame EXCEPT ![t].result = skeleton]
    /\ UNCHANGED <<valVars, cap, skeleton, user_snapshots, heap, retlog, last, cinfo, racy, applog>>

\* history[-1]
Get37Index(t) ==
    /\ pc[t] = "g37x"
    /\ LET out == ListLast(Deref(heap, frame[t].history))
           stored == StoredHistory(frame[t].user_id)
       IN  frame' = [frame EXCEPT ![t].exc = out.exc, ![t].result = out.result,
                                  ![t].fresh = \E k \in 1..Len(stored) : stored[k] = out.result]
    /\ pc' = [pc EXCEPT ![t] = "gret"]
    /\ UNCHANGED <<valVars, cap, skeleton, user_snapshots, heap, retlog, last, cinfo, racy, applog>>

\* return (the value returned is frame[t].result, or frame[t].exc is raised)
GetReturn(t) ==
    /\ pc[t] = "gret"
    /\ frame' = [frame EXCEPT ![t] = IdleFrame]
    /\ heap' = Collect(heap, user_snapshots, HeldRefs(frame'))
    /\ pc' = [pc EXCEPT ![t] = "idle"]
    /\ UNCHANGED <<valVars, cap, skeleton, user_snapshots, retlog, last, cinfo, racy, applog>>

InitConc ==
    /\ cap \in 0..MaxCap
    /\ InitManager
    /\ InitValidate

NextConc ==
    \E t \in Threads :
        \/ \E c \in ConcCalls(t) : CallCommit(t, c.user_id, c.req)
        \/ Commit48(t)
        \/ Commit49(t)
        \/ Commit51(t)
        \/ Commit54(t)
        \/ Commit63(t)
        \/ Commit66(t)
        \/ Commit67Slice(t)
        \/ Commit67Store(t)
        \/ Commit69(t)
        \/ \E o \in Owners : CallGetLatest(t, o)
        \/ Get36(t)
        \/ Get37Test(t)
        \/ Get37Index(t)
        \/ GetReturn(t)

SpecConc == InitConc /\ [][NextConc]_vars

(***************************************************************************)
(* validate applied to every text and kernel within the bounds.            *)
(***************************************************************************)
CallValidate ==
    /\ vout = NotCalled
    /\ vout' = validate(vtext, vkernel)
    /\ UNCHANGED <<vtext, vkernel, cap, skeleton, user_snapshots, heap, retlog, last,
                   threadVars>>

InitEngine ==
    /\ cap = MAX_SNAPSHOTS
    /\ InitManager
    /\ vtext \in Texts
    /\ vkernel \in {IdentityKernel("k1", invariants) : invariants \in RuleLists}
    /\ vout = NotCalled

NextEngine == CallValidate

SpecEngine == InitEngine /\ [][NextEngine]_vars

(***************************************************************************)
(* Claims about the manager under serialized calls (Spec).                 *)
(***************************************************************************)

\* C1: for a cap C >= 1, after N serialized commits to one owner the i-th
\* commit returned version i, and the stored history has length min(N, C) and
\* holds the versions N-min(N,C)+1 .. N in ascending order.
C1_VersionsAndWindow ==
    cap >= 1 =>
        \A o \in Owners :
            LET N == Len(retlog[o])
                h == StoredHistory(o)
                keep == Min(N, cap)
            IN  /\ \A i \in 1..N : retlog[o][i].version = i
                /\ Len(h) = keep
                /\ \A k \in 1..Len(h) : h[k].version = N - keep + k

\* eviction has happened twice under a small cap
C1_Witness ==
    /\ cap = 2
    /\ Len(retlog["u1"]) = 4
    /\ Len(StoredHistory("u1")) = 2
    /\ StoredHistory("u1")[1].version = 3
    /\ StoredHistory("u1")[2].version = 4

\* the example of the specification: cap 20 and 25 commits leave versions 6..25
C1_ExampleReached ==
    /\ cap = MAX_SNAPSHOTS
    /\ Len(retlog["u1"]) = 25
    /\ Len(StoredHistory("u1")) = 20
    /\ StoredHistory("u1")[1].version = 6
    /\ StoredHistory("u1")[20].version = 25

\* C3: a commit to owner B leaves the history of every other owner A as it
\* was (same entry, same snapshots), and with it the version A's next commit
\* receives.
C3_OwnerIsolation ==
    [][\A a \in Owners, b \in Owners :
          (a # b /\ retlog'[b] # retlog[b]) =>
              /\ (a \in DOMAIN user_snapshots') = (a \in DOMAIN user_snapshots)
              /\ StoredHistory(a)' = StoredHistory(a)
              /\ NewVersion(StoredHistory(a))' = NewVersion(StoredHistory(a))
              /\ retlog'[a] = retlog[a]]_vars

\* a commit to u2 has completed while u1 holds a rotated history
C3_Witness ==
    /\ last.op = "commit_new_snapshot"
    /\ last.user_id = "u2"
    /\ cap = 1
    /\ Len(retlog["u1"]) = 2
    /\ Len(StoredHistory("u1")) = 1
    /\ StoredHistory("u1")[1].version = 2

\* C4: after a completed commit every stored history has length at most the
\* cap, for every non-negative cap.
C4_HistoryWithinCap ==
    \A o \in DOMAIN user_snapshots : Len(heap[user_snapshots[o]]) <= cap

\* C5: get_latest for an owner never committed to returns, without failing,
\* the fallback: version 0 and status system_rollback.
C5_FallbackForFreshOwner ==
    (last.op = "get_latest" /\ Len(retlog[last.user_id]) = 0) =>
        /\ last.exc = "none"
        /\ last.result = MINIMAL_SKELETON_IDENTITY
        /\ last.result.version = 0
        /\ last.result.approval_status = "system_rollback"

\* get_latest on the fresh owner u2 after commits to u1
C5_Witness ==
    /\ last.op = "get_latest"
    /\ last.user_id = "u2"
    /\ Len(retlog["u2"]) = 0
    /\ Len(retlog["u1"]) >= 2
    /\ last.result.version = 0

\* C6: get_latest leaves the owner-to-history mapping as it was; on an
\* unknown owner it creates no entry, and the owner's first commit still
\* receives version 1.
C6_GetLatestReadOnly ==
    /\ [][last'.op = "get_latest" =>
            /\ user_snapshots' = user_snapshots
            /\ heap' = heap
            /\ \A o \in Owners : NewVersion(StoredHistory(o))' = NewVersion(StoredHistory(o))]_vars
    /\ [](\A o \in Owners : Len(retlog[o]) >= 1 => retlog[o][1].version = 1)

\* get_latest ran on an owner the dict has no entry for
C6_Witness ==
    /\ last.op = "get_latest"
    /\ last.user_id = "u2"
    /\ "u2" \notin DOMAIN user_snapshots
    /\ "u1" \in DOMAIN user_snapshots

\* C7: for an owner with history, get_latest returns the snapshot of highest
\* version in the stored history, which is the one the most recent commit
\* for that owner returned, before and after rotation.
C7_LatestIsMostRecentCommit ==
    (last.op = "get_latest" /\ Len(retlog[last.user_id]) >= 1) =>
        LET o == last.user_id
            h == StoredHistory(o)
        IN  /\ last.exc = "none"
            /\ last.result = retlog[o][Len(retlog[o])]
            /\ \E k \in 1..Len(h) : h[k] = last.result
            /\ \A k \in 1..Len(h) : h[k].version <= last.result.version

\* get_latest after rotation has evicted older snapshots
C7_Witness ==
    /\ last.op = "get_latest"
    /\ last.user_id = "u1"
    /\ cap = 2
    /\ Len(retlog["u1"]) = 4
    /\ last.result.version = 4

\* C9: every stored snapshot has version >= 1, the fallback is in no
\* owner's history, and no call changes the fallback.
C9_VersionZeroReserved ==
    /\ skeleton = MINIMAL_SKELETON_IDENTITY
    /\ skeleton.version = 0
    /\ \A r \in DOMAIN heap : \A k \in 1..Len(heap[r]) :
           /\ heap[r][k].version >= 1
           /\ heap[r][k] # skeleton
    /\ \A o \in Owners : \A i \in 1..Len(retlog[o]) : retlog[o][i].version >= 1

\* a snapshot that differs from the fallback in its version only is stored
C9_Witness ==
    \E o \in DOMAIN user_snapshots :
        /\ Len(StoredHistory(o)) >= 1
        /\ StoredHistory(o)[1] = [skeleton EXCEPT !.version = 1]
        /\ last.op = "get_latest"
        /\ last.user_id # o
        /\ last.result = skeleton

(***************************************************************************)
(* Claims about the manager under interleaved threads (SpecConc).          *)
(***************************************************************************)

\* C2: under any interleaving of commits to one owner, no two snapshots
\* returned for that owner, and no two stored in its history, carry the same
\* version (stated for the caps >= 1, where rotation truncates).
C2_NoDuplicateVersions ==
    cap >= 1 => \A o \in Owners :
        /\ \A i, j \in 1..Len(retlog[o]) :
               i # j => retlog[o][i].version # retlog[o][j].version
        /\ \A i, j \in 1..Len(StoredHistory(o)) :
               i # j => StoredHistory(o)[i].version # StoredHistory(o)[j].version

\* C8: a get_latest that one commit to the same owner overlaps (the owner's
\* commits being otherwise one at a time) returns the snapshot that was
\* latest when that commit began (the fallback if there was none) or the
\* snapshot being committed; what it returns is in the stored history when
\* it is read; and no get_latest fails.
C8_ReadDuringCommit ==
    \A t \in Threads :
        pc[t] = "gret" =>
            /\ frame[t].exc = "none"
            /\ (~racy[frame[t].user_id] /\ Cardinality(frame[t].ovl) = 1) =>
                   LET c == cinfo[CHOOSE x \in frame[t].ovl : TRUE]
                   IN  /\ c.user_id = frame[t].user_id
                       /\ \/ frame[t].result = c.pre
                          \/ c.snapshot # NoSnapshot /\ frame[t].result = c.snapshot
                       /\ frame[t].fresh

\* the read returns the snapshot being committed while the commit has
\* appended and sliced but not yet stored the rotated history
C8_Witness ==
    \E t \in Threads, u \in Threads :
        /\ cap = 1
        /\ pc[t] = "gret"
        /\ pc[u] = "c67w"
        /\ frame[u].user_id = frame[t].user_id
        /\ ~racy[frame[t].user_id]
        /\ frame[t].ovl = {frame[u].cid}
        /\ frame[t].result = frame[u].snapshot
        /\ frame[t].result.version = 2

\* the read returns the snapshot that was latest before the commit began,
\* after the commit has appended
C8_WitnessOld ==
    \E t \in Threads, u \in Threads :
        /\ pc[t] = "gret"
        /\ pc[u] = "c66"
        /\ frame[u].user_id = frame[t].user_id
        /\ ~racy[frame[t].user_id]
        /\ frame[t].ovl = {frame[u].cid}
        /\ frame[t].result = cinfo[frame[u].cid].pre
        /\ frame[t].result.version = 1

(***************************************************************************)
(* Claims about validate (SpecEngine).                                     *)
(***************************************************************************)

\* C10: validate returns valid = true exactly when the violation list it
\* returns is empty, and for an empty rule list it returns (true, []).
C10_ValidIffNoViolations ==
    /\ vout.does = "returns" => (vout.valid <=> vout.violations = <<>>)
    /\ (vout # NotCalled /\ vkernel.invariants = <<>>) =>
           /\ vout.does = "returns"
           /\ vout.valid
           /\ vout.violations = <<>>

\* validate has returned two violations for a non-empty text
C10_Witness ==
    /\ vout.does = "returns"
    /\ ~vout.valid
    /\ Len(vout.violations) = 2
    /\ Len(vtext) > 0

\* validate has returned (true, []) for an empty rule list
C10_WitnessEmpty ==
    /\ vout.does = "returns"
    /\ vkernel.invariants = <<>>
    /\ Len(vtext) > 0
    /\ vout.valid

\* two characters are the same letter, whatever their case
SameLetter(x, y) == x = y \/ {x, y} = {"a", "A"} \/ {x, y} = {"b", "B"}

\* the pattern occurs in the text, case-insensitively
Present(p, t) ==
    \E k \in 0..(Len(t) - Len(p)) : \A m \in 1..Len(p) : SameLetter(p[m], t[k + m])

\* a pattern rule in the sense of the specification: kind Contains or
\* ContainsNot and a text pattern (an absent pattern key is the empty text)
IsPatternRule(rule) ==
    /\ rule.shape = "dict"
    /\ rule.type \in {"contains", "contains_not"}
    /\ rule.pattern_is \in {"str", "missing"}

\* the tag a pattern rule at 0-based index i reports under
PatternTag(rule, i) == IF rule.id # "" THEN <<rule.id>> ELSE <<"entry_", ToString(i)>>

\* the returned violations that carry the tag of the pattern rule at index i
TaggedBy(rule, i) ==
    {j \in 1..Len(vout.violations) :
        LET m == vout.violations[j]
            tag == PatternTag(rule, i)
        IN  /\ Len(m) > Len(tag) + 1
            /\ m[1] = "[Rule:"
            /\ SubSeq(m, 2, Len(tag) + 1) = tag
            /\ m[Len(tag) + 2] \in {"] Invariant Violation: Restricted pattern '",
                                    "] Invariant Violation: Required pattern '"}}

\* the rules of the list equal to rule number k (a rule may be listed twice)
Copies(k) == {n \in 1..Len(vkernel.invariants) :
                 /\ vkernel.invariants[n] = vkernel.invariants[k]
                 /\ PatternTag(vkernel.invariants[n], n - 1) = PatternTag(vkernel.invariants[k], k - 1)}

\* C11: when validate returns, a Contains rule has a violation exactly when
\* its pattern is absent from the text, a ContainsNot rule exactly when its
\* pattern is present, case-insensitively (the empty pattern is present in
\* every text); each rule reports at most one violation, under its id.
C11_PatternSemantics ==
    vout.does = "returns" =>
        \A k \in 1..Len(vkernel.invariants) :
            LET rule == vkernel.invariants[k]
                fails == IF rule.type = "contains"
                         THEN ~Present(PatternOf(rule), vtext)
                         ELSE Present(PatternOf(rule), vtext)
            IN  IsPatternRule(rule) =>
                    /\ Cardinality(TaggedBy(rule, k - 1)) =
                           (IF fails THEN Cardinality(Copies(k)) ELSE 0)
                    /\ (rule.pattern_is = "missing" /\ rule.type = "contains_not") => fails

\* a ContainsNot rule whose pattern differs from the text in case only is
\* violated, and a Contains rule whose pattern is in the text in the other
\* case is not
C11_Witness ==
    /\ vout.does = "returns"
    /\ vtext = <<"a", "B">>
    /\ vkernel.invariants = <<Dict("contains_not", "str", <<"A", "b">>, ""),
                              Dict("contains", "str", <<"b">>, "p3")>>
    /\ Len(vout.violations) = 1
    /\ vout.violations[1][2] = "entry_"

\* the rule's check raises an Exception on the text
RuleCrashes(rule, text) ==
    \/ rule.shape = "callable" /\ CallPredicate(rule.fn, text).does = "raises"
    \/ /\ rule.shape = "dict"
       /\ rule.type \in {"contains", "contains_not"}
       /\ rule.pattern_is = "none"

\* the rule's check raises a BaseException that is no Exception on the text
RuleInterrupts(rule, text) ==
    rule.shape = "callable" /\ CallPredicate(rule.fn, text).does = "raises_base"

\* the rule is not satisfied by the text: a predicate returns false or
\* raises, a required pattern is missing, a restricted pattern is present
RuleFails(rule, text) ==
    \/ RuleCrashes(rule, text)
    \/ /\ rule.shape = "callable"
       /\ CallPredicate(rule.fn, text).does = "returns"
       /\ ~CallPredicate(rule.fn, text).value
    \/ /\ IsPatternRule(rule)
       /\ IF rule.type = "contains" THEN ~Present(PatternOf(rule), text)
          ELSE Present(PatternOf(rule), text)

NoInterrupt ==
    \A n \in 1..Len(vkernel.invariants) : ~RuleInterrupts(vkernel.invariants[n], vtext)

\* the returned violations tagged err_<i>
CrashReports(i) ==
    {j \in 1..Len(vout.violations) :
        /\ vout.violations[j][1] = "[Rule:err_"
        /\ vout.violations[j][2] = ToString(i)}

\* C12: a predicate at 0-based index i that raises an Exception contributes
\* exactly one violation, tagged err_<i>; validate returns, with valid =
\* false; and every failing rule after it still reports, after that violation.
C12_FailClosed ==
    (vout # NotCalled /\ NoInterrupt) =>
        \A k \in 1..Len(vkernel.invariants) :
            LET rule == vkernel.invariants[k]
                later == {n \in (k + 1)..Len(vkernel.invariants) :
                             RuleFails(vkernel.invariants[n], vtext)}
            IN  (rule.shape = "callable" /\ RuleCrashes(rule, vtext)) =>
                    /\ vout.does = "returns"
                    /\ ~vout.valid
                    /\ Cardinality(CrashReports(k - 1)) = 1
                    /\ \A j \in CrashReports(k - 1) :
                           /\ vout.violations[j][4] = CallPredicate(rule.fn, vtext).exc
                           /\ Len(vout.violations) - j = Cardinality(later)

\* a raising predicate is followed by a failing predicate: both report
C12_Witness ==
    /\ vout.does = "returns"
    /\ vkernel.invariants = <<Callable("broken", "raises_value_error"),
                              Callable("is_polite", "always_false")>>
    /\ Len(vout.violations) = 2
    /\ vout.violations[1][1] = "[Rule:err_"
    /\ vout.violations[2][2] = "is_polite"

\* a raising predicate in second place reports under err_1
C12_WitnessSecond ==
    /\ vout.does = "returns"
    /\ Len(vkernel.invariants) = 2
    /\ vkernel.invariants[2] = Callable("broken", "raises_value_error")
    /\ CrashReports(1) # {}
    /\ CrashReports(0) = {}

\* the rules of the list that fail on the text, by their 1-based position
FailingRules == {k \in 1..Len(vkernel.invariants) : RuleFails(vkernel.invariants[k], vtext)}

\* the position of the j-th failing rule
NthFailing(j) ==
    CHOOSE k \in FailingRules : Cardinality({n \in FailingRules : n <= k}) = j

\* message m is the report of the rule at 0-based index i
ReportOf(m, rule, i) ==
    IF RuleCrashes(rule, vtext)
    THEN m[1] = "[Rule:err_" /\ m[2] = ToString(i)
    ELSE IF rule.shape = "callable"
    THEN /\ m[1] = "[Rule:"
         /\ IF rule.name # "" THEN m[2] = rule.name
            ELSE m[2] = "lambda_" /\ m[3] = ToString(i)
         /\ m[Len(m)] = "] Invariant Violation: Predicate check failed."
    ELSE LET tag == PatternTag(rule, i)
         IN  /\ m[1] = "[Rule:"
             /\ SubSeq(m, 2, Len(tag) + 1) = tag
             /\ m[Len(tag) + 2] =
                    (IF rule.type = "contains"
                     THEN "] Invariant Violation: Required pattern '"
                     ELSE "] Invariant Violation: Restricted pattern '")
             /\ SubSeq(m, Len(tag) + 3, Len(m) - 1) = PatternOf(rule)

\* C13: validate evaluates every rule and reports in rule order: the
\* violation list has one message per failing rule, the j-th message being
\* the report of the j-th failing rule; a rule listed twice reports twice.
C13_AllRulesInOrder ==
    (vout # NotCalled /\ NoInterrupt) =>
        /\ vout.does = "returns"
        /\ Len(vout.violations) = Cardinality(FailingRules)
        /\ \A j \in 1..Len(vout.violations) :
               j <= Cardinality(FailingRules) =>
                   ReportOf(vout.violations[j], vkernel.invariants[NthFailing(j)],
                            NthFailing(j) - 1)

\* a missing required pattern and a failed unnamed predicate, in that order
C13_Witness ==
    /\ vout.does = "returns"
    /\ vtext = <<"a">>
    /\ vkernel.invariants = <<Dict("contains", "str", <<"b">>, "p3"),
                              Callable("", "always_false")>>
    /\ Len(vout.violations) = 2
    /\ vout.violations[1][2] = "p3"
    /\ vout.violations[2][2] = "lambda_"

\* the same rule listed twice reports twice
C13_WitnessDuplicate ==
    /\ vout.does = "returns"
    /\ vkernel.invariants = <<Callable("is_polite", "always_false"),
                              Callable("is_polite", "always_false")>>
    /\ Len(vout.violations) = 2
    /\ vout.violations[1] = vout.violations[2]

\* C14: every rule that reaches validate is a predicate or a pattern rule of
\* kind contains or contains_not, so validate never returns valid = true for
\* a kernel holding a rule it did not evaluate.
C14_NoSilentSkip ==
    (vout.does = "returns" /\ vout.valid) =>
        \A k \in 1..Len(vkernel.invariants) :
            \/ vkernel.invariants[k].shape = "callable"
            \/ /\ vkernel.invariants[k].shape = "dict"
               /\ vkernel.invariants[k].type \in {"contains", "contains_not"}

\* the pieces of a message that end with a full stop
EndsWithFullStop(piece) ==
    piece \in {"] Invariant Violation: Predicate check failed.",
               "' detected.", "' missing.", ")."}

\* "[Rule:<id>] Invariant Violation: <description>."
IsViolationFormat(m) ==
    /\ Len(m) >= 3
    /\ m[1] = "[Rule:"
    /\ \E k \in 3..Len(m) :
           m[k] \in {"] Invariant Violation: Predicate check failed.",
                     "] Invariant Violation: Restricted pattern '",
                     "] Invariant Violation: Required pattern '"}
    /\ EndsWithFullStop(m[Len(m)])

\* "[Rule:err_<i>] Invariant Error: Check crashed (<error-kind>)."
IsErrorFormat(m) ==
    /\ Len(m) = 5
    /\ m[1] = "[Rule:err_"
    /\ m[3] = "] Invariant Error: Check crashed ("
    /\ m[5] = ")."

\* C15: every violation string validate returns has one of the two formats,
\* character for character, and ends with a full stop.
C15_MessageFormats ==
    vout.does = "returns" =>
        \A j \in 1..Len(vout.violations) :
            /\ IsViolationFormat(vout.violations[j]) \/ IsErrorFormat(vout.violations[j])
            /\ EndsWithFullStop(vout.violations[j][Len(vout.violations[j])])

(***************************************************************************)
(* Further claims about the manager under serialized calls (Spec).         *)
(***************************************************************************)

\* C16: with commits one at a time, every owner's history is a run of
\* consecutive versions in ascending order, so its versions are unique.
C16_ContiguousVersions ==
    \A o \in Owners :
        LET h == StoredHistory(o)
        IN  /\ \A k \in 1..(Len(h) - 1) : h[k + 1].version = h[k].version + 1
            /\ \A i, j \in 1..Len(h) : i < j => h[i].version < h[j].version

\* a rotated history that does not start at version 1
C16_Witness ==
    /\ cap = 2
    /\ Len(StoredHistory("u2")) = 2
    /\ StoredHistory("u2")[1].version = 2
    /\ StoredHistory("u2")[2].version = 3

\* C17: a commit changes the owner's history only by appending the new
\* snapshot and dropping snapshots from the front: what remains is a suffix
\* of the old history followed by the new snapshot, unchanged and in order,
\* and nothing is dropped while the length is at most the cap.
C17_AppendAndEvictOnly ==
    [][\A o \in Owners :
          retlog'[o] # retlog[o] =>
              LET h == StoredHistory(o)
                  grown == Append(h, retlog'[o][Len(retlog'[o])])
                  dropped == Len(grown) - Len(StoredHistory(o)')
              IN  /\ dropped \in 0..Len(grown)
                  /\ StoredHistory(o)' = SubSeq(grown, dropped + 1, Len(grown))
                  /\ Len(grown) <= cap => dropped = 0]_vars

\* a commit has evicted the oldest snapshot and kept the two before it
C17_Witness ==
    /\ cap = 2
    /\ last.op = "commit_new_snapshot"
    /\ last.user_id = "u1"
    /\ Len(retlog["u1"]) = 3
    /\ StoredHistory("u1") = <<retlog["u1"][2], retlog["u1"][3]>>
    /\ retlog["u1"][2].approval_status = "user_approved"

\* C18: commit_new_snapshot always succeeds and enforces no transition rule:
\* whatever the status of the current latest snapshot, a commit with any
\* kernel, reflection and status returns a snapshot carrying exactly these,
\* with the version of the latest plus one, and it becomes the latest.
\* That the call is possible is stated for the states reached by construction
\* or by a commit: get_latest leaves the stores as they were.
C18_CommitAnyStatus ==
    /\ [][\A o \in Owners, req \in Requests :
             CommitNewSnapshot(o, req) =>
                 /\ last'.exc = "none"
                 /\ last'.result =
                        [kernel |-> req.kernel,
                         version |-> LatestOf(StoredHistory(o), skeleton).result.version + 1,
                         approval_status |-> req.status,
                         reflection |-> req.reflection]
                 /\ LatestOf(StoredHistory(o)', skeleton).result = last'.result]_vars
    /\ []((last.op # "get_latest" /\ SumLen(retlog, Owners) < CommitBudget) =>
              \A o \in CallOwners, req \in CallRequests : ENABLED CommitNewSnapshot(o, req))

\* one owner has gone from user_approved back to auto, then to
\* system_rollback, then to reviewed
C18_Witness ==
    /\ Len(retlog["u1"]) = 4
    /\ retlog["u1"][1].approval_status = "user_approved"
    /\ retlog["u1"][2].approval_status = "auto"
    /\ retlog["u1"][3].approval_status = "system_rollback"
    /\ retlog["u1"][4].approval_status = "reviewed"
    /\ StoredHistory("u1")[Len(StoredHistory("u1"))] = retlog["u1"][4]

(***************************************************************************)
(* Commits on several threads (SpecConc).                                  *)
(***************************************************************************)

\* C19: no committed snapshot is lost under concurrent commits: once every
\* call has returned, each snapshot that was appended for an owner is an
\* element of the owner's stored history, unless at least cap snapshots were
\* appended for that owner after it.
C19_NoLostCommit ==
    (\A t \in Threads : pc[t] = "idle") =>
        \A o \in Owners :
            \A i \in 1..Len(applog[o]) :
                Len(applog[o]) - i < cap =>
                    \E k \in 1..Len(StoredHistory(o)) : StoredHistory(o)[k] = applog[o][i]

====
